---- MODULE Spec2Model ----
(***************************************************************************)
(* A model of swift::OptionSet<Flags, StorageType>                         *)
(* (include/swift/Basic/OptionSet.h).                                      *)
(*                                                                         *)
(* An OptionSet is one unsigned integer, Storage.  The model keeps three   *)
(* OptionSet objects, a, b and c, of one instantiation of the template     *)
(* and applies the constructors, the conversions, contains and the         *)
(* operators to them.  StorageType is narrower than int, so C++ promotes   *)
(* each Storage operand of |, & and ~ to int and converts the int result   *)
(* back to StorageType; both steps are modelled.                           *)
(***************************************************************************)
EXTENDS Integers, FiniteSets

VARIABLES w, obj, op, self, arg, x, y, res, flag, ret

vars == <<w, obj, op, self, arg, x, y, res, flag, ret>>

(***************************************************************************)
(* Bounds of the model.                                                    *)
(***************************************************************************)
\* number of enumerators of Flags; enumerator k has the value 2^k
NumFlags == 3
\* raw storage patterns 0..MaxRaw are passed to OptionSet(StorageType)
MaxRaw == 4

\* widths (in bits) of the instantiations of StorageType that are explored
StorageWidths == {8, 16}

\* the OptionSet objects of the model, and those used as the left operand
\* of an in-place operator
Names == {"a", "b", "c"}
Lvalues == {"a"}

\* the enumerators of Flags: Read = 1, Write = 2, Execute = 4, ...
FlagValues == {2^k : k \in 0..(NumFlags - 1)}

\* the pattern with every bit of StorageType set
AllOnes == 2^w - 1

\* the raw patterns handed to OptionSet(StorageType)
RawInputs == (0..MaxRaw) \cup {AllOnes}

(***************************************************************************)
(* The built-in operators on int (two's complement), which the promoted    *)
(* Storage operands are combined with, and the conversion of an int to     *)
(* StorageType.                                                            *)
(***************************************************************************)
RECURSIVE IntAnd(_, _)
IntAnd(m, n) ==
  IF m = 0 \/ n = 0 THEN 0
  ELSE IF m = -1 THEN n
  ELSE IF n = -1 THEN m
  ELSE (m % 2) * (n % 2) + 2 * IntAnd(m \div 2, n \div 2)

RECURSIVE IntOr(_, _)
IntOr(m, n) ==
  IF m = 0 THEN n
  ELSE IF n = 0 THEN m
  ELSE IF m = -1 \/ n = -1 THEN -1
  ELSE (IF m % 2 = 1 \/ n % 2 = 1 THEN 1 ELSE 0) + 2 * IntOr(m \div 2, n \div 2)

IntNot(m) == -m - 1

\* conversion of an int to the unsigned StorageType: modulo 2^w
ToStorage(v) == v % (2^w)

(***************************************************************************)
(* The members of OptionSet.  An OptionSet value is its Storage.           *)
(***************************************************************************)
\* OptionSet() : Storage() { }
OptionSetDefault == 0

\* OptionSet(llvm::NoneType) : Storage() { }
OptionSetNone == 0

\* OptionSet(Flags flag) : Storage(static_cast<StorageType>(flag)) { }
OptionSetFlag(f) == ToStorage(f)

\* OptionSet(StorageType) as it would be if it kept only the bits of the
\* enumerators of Flags
OptionSetRaw_MaskedToFlags(storage) == IntAnd(ToStorage(storage), 2^NumFlags - 1)

\* explicit OptionSet(StorageType storage) : Storage(storage) { }
OptionSetRaw(storage) == ToStorage(storage)

\* operator bool as it would be if it tested for the empty set
operatorBool_IsEmpty(Storage) == Storage = 0

\* explicit operator bool() const { return Storage != 0; }
operatorBool(Storage) == Storage # 0

\* explicit operator StorageType() const { return Storage; }
operatorStorageType(Storage) == Storage

\* operator| as it would be if it dropped its right operand
operatorOr_LhsOnly(lhs, rhs) == OptionSetRaw(lhs)

\* operator| as it would be if it added the storages
operatorOr_Plus(lhs, rhs) == OptionSetRaw(lhs + rhs)

\* operator|: return OptionSet(lhs.Storage | rhs.Storage);
operatorOr(lhs, rhs) == OptionSetRaw(IntOr(lhs, rhs))

\* operator|=: lhs.Storage |= rhs.Storage;
operatorOrAssign(lhs, rhs) == ToStorage(IntOr(lhs, rhs))

\* operator& as it would be with the logical && in place of the bitwise &
operatorAnd_Logical(lhs, rhs) == OptionSetRaw(IF lhs # 0 /\ rhs # 0 THEN 1 ELSE 0)

\* operator&: return OptionSet(lhs.Storage & rhs.Storage);
operatorAnd(lhs, rhs) == OptionSetRaw(IntAnd(lhs, rhs))

\* operator&=: lhs.Storage &= rhs.Storage;
operatorAndAssign(lhs, rhs) == ToStorage(IntAnd(lhs, rhs))

\* operator~ as it would be if it complemented only the bits of the
\* enumerators of Flags
operatorNot_MaskedToFlags(set) == OptionSetRaw(IntAnd(IntNot(set), 2^NumFlags - 1))

\* operator~: return OptionSet(~set.Storage);
operatorNot(set) == OptionSetRaw(IntNot(set))

\* operator- as it would be with the arithmetic difference of the storages
operatorMinus_Arithmetic(lhs, rhs) == OptionSetRaw(lhs - rhs)

\* operator-: return OptionSet(lhs.Storage & ~rhs.Storage);
operatorMinus(lhs, rhs) == OptionSetRaw(IntAnd(lhs, IntNot(rhs)))

\* operator-= as it would be without the complement of the right operand
operatorMinusAssign_NoComplement(lhs, rhs) == ToStorage(IntAnd(lhs, rhs))

\* operator-=: lhs.Storage &= ~rhs.Storage;
operatorMinusAssign(lhs, rhs) == ToStorage(IntAnd(lhs, IntNot(rhs)))

\* contains: return static_cast<bool>(*this & set);
contains(this, set) == operatorBool(operatorAnd(this, set))

\* the in-place operators end with: return lhs;
ReturnLhs(lhs) == lhs

(***************************************************************************)
(* The state machine.                                                      *)
(*   w     width of StorageType                                            *)
(*   obj   Storage of each OptionSet object                                *)
(*   op    the member that ran last                                        *)
(*   self  the object it constructed, or its this / lhs object             *)
(*   arg   the object passed as its by-value OptionSet argument            *)
(*   x, y  the Storage of its this / lhs and of its by-value argument,     *)
(*         as they are when it returns (for a constructor, x is the        *)
(*         argument)                                                       *)
(*   res   Storage of the OptionSet (or the StorageType) it returned       *)
(*   flag  the bool it returned                                            *)
(*   ret   the object the returned reference refers to                     *)
(***************************************************************************)
Init ==
  /\ w \in StorageWidths
  /\ obj = [n \in Names |-> OptionSetDefault]
  /\ op = "OptionSet()"
  /\ self = "a"
  /\ arg = "none"
  /\ x = 0 /\ y = 0 /\ res = 0
  /\ flag = FALSE
  /\ ret = "none"

ConstructDefault ==
  \E n \in Names :
    /\ obj' = [obj EXCEPT ![n] = OptionSetDefault]
    /\ op' = "OptionSet()"
    /\ self' = n
    /\ arg' = "none"
    /\ x' = 0 /\ y' = 0 /\ res' = 0 /\ flag' = FALSE /\ ret' = "none"
    /\ UNCHANGED w

ConstructNone ==
  \E n \in Names :
    /\ obj' = [obj EXCEPT ![n] = OptionSetNone]
    /\ op' = "OptionSet(NoneType)"
    /\ self' = n
    /\ arg' = "none"
    /\ x' = 0 /\ y' = 0 /\ res' = 0 /\ flag' = FALSE /\ ret' = "none"
    /\ UNCHANGED w

ConstructFlag ==
  \E n \in Names, f \in FlagValues :
    /\ obj' = [obj EXCEPT ![n] = OptionSetFlag(f)]
    /\ op' = "OptionSet(Flags)"
    /\ self' = n
    /\ arg' = "none"
    /\ x' = f
    /\ y' = 0 /\ res' = 0 /\ flag' = FALSE /\ ret' = "none"
    /\ UNCHANGED w

ConstructRaw ==
  \E n \in Names, bits \in RawInputs :
    /\ obj' = [obj EXCEPT ![n] = OptionSetRaw(bits)]
    /\ op' = "OptionSet(StorageType)"
    /\ self' = n
    /\ arg' = "none"
    /\ x' = bits
    /\ y' = 0 /\ res' = 0 /\ flag' = FALSE /\ ret' = "none"
    /\ UNCHANGED w

Bool ==
  \E n \in Names :
    /\ op' = "operator bool"
    /\ self' = n
    /\ arg' = "none"
    /\ x' = obj[n]
    /\ flag' = operatorBool(obj[n])
    /\ y' = 0 /\ res' = 0 /\ ret' = "none"
    /\ UNCHANGED <<w, obj>>

ToRaw ==
  \E n \in Names :
    /\ op' = "operator StorageType"
    /\ self' = n
    /\ arg' = "none"
    /\ x' = obj[n]
    /\ res' = operatorStorageType(obj[n])
    /\ y' = 0 /\ flag' = FALSE /\ ret' = "none"
    /\ UNCHANGED <<w, obj>>

Contains ==
  \E n \in Lvalues, m \in Names :
    /\ op' = "contains"
    /\ self' = n
    /\ arg' = m
    /\ x' = obj[n]
    /\ y' = obj[m]
    /\ flag' = contains(obj[n], obj[m])
    /\ res' = 0 /\ ret' = "none"
    /\ UNCHANGED <<w, obj>>

Union ==
  \E n \in Lvalues, m \in Names :
    /\ op' = "operator|"
    /\ self' = n
    /\ arg' = m
    /\ x' = obj[n]
    /\ y' = obj[m]
    /\ res' = operatorOr(obj[n], obj[m])
    /\ flag' = FALSE /\ ret' = "none"
    /\ UNCHANGED <<w, obj>>

Intersect ==
  \E n \in Lvalues, m \in Names :
    /\ op' = "operator&"
    /\ self' = n
    /\ arg' = m
    /\ x' = obj[n]
    /\ y' = obj[m]
    /\ res' = operatorAnd(obj[n], obj[m])
    /\ flag' = FALSE /\ ret' = "none"
    /\ UNCHANGED <<w, obj>>

Complement ==
  \E n \in Names :
    /\ op' = "operator~"
    /\ self' = n
    /\ arg' = "none"
    /\ x' = obj[n]
    /\ res' = operatorNot(obj[n])
    /\ y' = 0 /\ flag' = FALSE /\ ret' = "none"
    /\ UNCHANGED <<w, obj>>

Difference ==
  \E n \in Lvalues, m \in Names :
    /\ op' = "operator-"
    /\ self' = n
    /\ arg' = m
    /\ x' = obj[n]
    /\ y' = obj[m]
    /\ res' = operatorMinus(obj[n], obj[m])
    /\ flag' = FALSE /\ ret' = "none"
    /\ UNCHANGED <<w, obj>>

UnionAssign ==
  \E n \in Lvalues, m \in Names :
    /\ obj' = [obj EXCEPT ![n] = operatorOrAssign(obj[n], obj[m])]
    /\ op' = "operator|="
    /\ self' = n
    /\ arg' = m
    /\ x' = obj'[n]
    /\ y' = obj[m]
    /\ ret' = ReturnLhs(n)
    /\ res' = 0 /\ flag' = FALSE
    /\ UNCHANGED w

IntersectAssign ==
  \E n \in Lvalues, m \in Names :
    /\ obj' = [obj EXCEPT ![n] = operatorAndAssign(obj[n], obj[m])]
    /\ op' = "operator&="
    /\ self' = n
    /\ arg' = m
    /\ x' = obj'[n]
    /\ y' = obj[m]
    /\ ret' = ReturnLhs(n)
    /\ res' = 0 /\ flag' = FALSE
    /\ UNCHANGED w

DifferenceAssign ==
  \E n \in Lvalues, m \in Names :
    /\ obj' = [obj EXCEPT ![n] = operatorMinusAssign(obj[n], obj[m])]
    /\ op' = "operator-="
    /\ self' = n
    /\ arg' = m
    /\ x' = obj'[n]
    /\ y' = obj[m]
    /\ ret' = ReturnLhs(n)
    /\ res' = 0 /\ flag' = FALSE
    /\ UNCHANGED w

Next ==
  \/ ConstructDefault
  \/ ConstructNone
  \/ ConstructFlag
  \/ ConstructRaw
  \/ Bool
  \/ ToRaw
  \/ Contains
  \/ Union
  \/ Intersect
  \/ Complement
  \/ Difference
  \/ UnionAssign
  \/ IntersectAssign
  \/ DifferenceAssign

Spec == Init /\ [][Next]_vars

TypeOK ==
  /\ w \in StorageWidths
  /\ \A n \in Names : obj[n] \in 0..AllOnes
  /\ res \in 0..AllOnes
  /\ flag \in BOOLEAN


(***************************************************************************)
(* Reading single bits of a storage value.                                 *)
(***************************************************************************)
Bit(v, k) == (v \div (2^k)) % 2

BitPositions == 0..(w - 1)

InPlaceOps == {"operator|=", "operator&=", "operator-="}

\* the pure operator an in-place operator corresponds to
PureResult(o, lhs, rhs) ==
  IF o = "operator|=" THEN operatorOr(lhs, rhs)
  ELSE IF o = "operator&=" THEN operatorAnd(lhs, rhs)
  ELSE operatorMinus(lhs, rhs)

(***************************************************************************)
(* The properties.                                                         *)
(***************************************************************************)

\* C1: self.contains(other) returns true if and only if every bit set in
\* other's storage is also set in self's storage, i.e. exactly when
\* (self & other) == other; contains of the empty set is true, and contains
\* of a multi-bit set of which only some bits are present is false.
C1_ContainsIffSubset ==
  op = "contains" =>
    /\ flag <=> (\A k \in BitPositions : Bit(y, k) = 1 => Bit(x, k) = 1)
    /\ flag <=> (operatorAnd(x, y) = y)

\* C2: contains is reflexive: x.contains(x) returns true for every option
\* set x, the empty set included.
C2_ContainsReflexive ==
  (op = "contains" /\ arg = self) => flag

\* C3, as claimed: the boolean conversion returns true if and only if the
\* storage is 0 (true for the default-constructed set, false for a set
\* constructed from a single flag).
C3_BoolIffStorageZero ==
  op = "operator bool" => (flag <=> (x = 0))

\* C3, amended: the boolean conversion returns true if and only if the
\* storage is not 0; the default-constructed set and the set constructed
\* from the none sentinel have storage 0 and convert to false, a set
\* constructed from a single flag converts to true.
C3_BoolIffStorageNonZero ==
  /\ op = "operator bool" => (flag <=> (x # 0))
  /\ op \in {"OptionSet()", "OptionSet(NoneType)"} =>
       (obj[self] = 0 /\ ~operatorBool(obj[self]))
  /\ op = "OptionSet(Flags)" => operatorBool(obj[self])

C3_Witness ==
  op = "operator bool" /\ x = OptionSetDefault /\ flag = FALSE

\* C4: for all flags f and g (possibly equal), fromFlag(f) | fromFlag(g)
\* contains fromFlag(f) and fromFlag(g), and does not contain fromFlag(h)
\* for any flag h different from both.
C4_UnionOfFlagsContains ==
  \A f \in FlagValues, g \in FlagValues, h \in FlagValues :
    ( /\ op = "contains"
      /\ x = operatorOr(OptionSetFlag(f), OptionSetFlag(g))
      /\ y = OptionSetFlag(h) )
    => (flag <=> (h \in {f, g}))

C4_Witness ==
  /\ op = "contains"
  /\ x = operatorOr(OptionSetFlag(1), OptionSetFlag(2))
  /\ y = OptionSetFlag(4)
  /\ flag = FALSE

\* C5: complement(x) is the bitwise NOT of x's storage over the full width
\* w: its raw value is (2^w - 1) - x.storage, inside 0..2^w-1; x |
\* complement(x) is the all-ones pattern, x & complement(x) is empty, and
\* for an 8-bit storage the complement of the empty set is 255.
C5_ComplementFullWidth ==
  op = "operator~" =>
    /\ res = (2^w - 1) - x
    /\ res \in 0..(2^w - 1)
    /\ \A k \in BitPositions : Bit(res, k) = 1 - Bit(x, k)
    /\ operatorOr(x, res) = OptionSetRaw(AllOnes)
    /\ operatorAnd(x, res) = OptionSetDefault
    /\ (w = 8 /\ x = OptionSetDefault) => res = 255

C5_Witness ==
  op = "operator~" /\ w = 8 /\ x = OptionSetDefault /\ res = 255

\* C6: difference(a, b) has storage a.storage & ~b.storage: it equals
\* intersect(a, complement(b)) and holds exactly the bits of a that are not
\* in b; x - x is empty, and (Read|Write) - Write has raw value 1 and
\* equals fromFlag(Read).
C6_DifferenceIsAndNot ==
  op = "operator-" =>
    /\ res = operatorAnd(x, operatorNot(y))
    /\ res \in 0..AllOnes
    /\ \A k \in BitPositions :
         Bit(res, k) = 1 <=> (Bit(x, k) = 1 /\ Bit(y, k) = 0)
    /\ (x = y) => res = OptionSetDefault
    /\ (x = operatorOr(OptionSetFlag(1), OptionSetFlag(2)) /\ y = OptionSetFlag(2))
         => (operatorStorageType(res) = 1 /\ res = OptionSetFlag(1))

C6_Witness ==
  /\ op = "operator-"
  /\ x = 3 /\ y = OptionSetFlag(2)
  /\ res = 1

\* C7: union is the bitwise OR of the two storages; it is commutative and
\* associative and has the empty set as identity.
C7_UnionAlgebra ==
  op = "operator|" =>
    /\ res \in 0..AllOnes
    /\ \A k \in BitPositions :
         Bit(res, k) = 1 <=> (Bit(x, k) = 1 \/ Bit(y, k) = 1)
    /\ res = operatorOr(y, x)
    /\ \A n \in Names :
         operatorOr(res, obj[n]) = operatorOr(x, operatorOr(y, obj[n]))
    /\ operatorOr(OptionSetDefault, x) = x
    /\ operatorOr(x, OptionSetDefault) = x

C7_Witness ==
  /\ op = "operator|"
  /\ x = 6 /\ y = 3 /\ res = 7
  /\ obj["c"] = AllOnes

\* C8: intersect is the bitwise AND of the two storages; it is commutative
\* and associative, has the empty set as absorbing element and the
\* all-bits-set pattern as identity.
C8_IntersectAlgebra ==
  op = "operator&" =>
    /\ res \in 0..AllOnes
    /\ \A k \in BitPositions :
         Bit(res, k) = 1 <=> (Bit(x, k) = 1 /\ Bit(y, k) = 1)
    /\ res = operatorAnd(y, x)
    /\ \A n \in Names :
         operatorAnd(res, obj[n]) = operatorAnd(x, operatorAnd(y, obj[n]))
    /\ operatorAnd(OptionSetDefault, x) = OptionSetDefault
    /\ operatorAnd(OptionSetRaw(AllOnes), x) = x
    /\ operatorAnd(x, OptionSetRaw(AllOnes)) = x

C8_Witness ==
  /\ op = "operator&"
  /\ x = 6 /\ y = 3 /\ res = 2
  /\ obj["c"] = 2

\* C9: raw storage round-trips verbatim: fromRaw(bits).toRaw() = bits for
\* every pattern of the storage type, fromRaw(x.toRaw()).toRaw() =
\* x.toRaw() for every x, and no bit is masked or shifted, the bits of no
\* defined flag included.
C9_RawRoundTrip ==
  /\ op = "OptionSet(StorageType)" =>
       (obj[self] = x /\ operatorStorageType(obj[self]) = x)
  /\ op = "operator StorageType" =>
       /\ res = obj[self]
       /\ operatorStorageType(OptionSetRaw(res)) = res

C9_Witness ==
  /\ op = "operator StorageType"
  /\ res = AllOnes
  /\ Bit(res, NumFlags) = 1

====
